---- MODULE Spec2Model ----
(***************************************************************************)
(* Model of leankit/api.py: the retry decorator (retry / deco_retry /      *)
(* f_retry), the HTTP client functions it wraps, and reset_card_tasks.     *)
(***************************************************************************)
EXTENDS Integers, Sequences, FiniteSets, TLC

(* ------------------------------ bounds -------------------------------- *)
MaxTries == 3
MaxCalls == 2
MaxLanes == 2
MaxCards == 2

(* ------------------------- program constants -------------------------- *)
DefaultTries == 13
DefaultDelay == 1
DefaultBackoff == 2

Callers == {"c1", "c2"}
ClientCaller == "c1"
Delays == {0, 1, 3}
Backoffs == {1, 2}

VARIABLES
    tries, delay, backoff, logger,   \* arguments of retry(...), closed over by f_retry
    pc,                              \* position of each caller inside f_retry
    op,                              \* the wrapped function a caller is running
    mtries, mdelay,                  \* locals of f_retry
    calls,                           \* calls of the wrapper made so far by a caller
    trace,                           \* observable events of the current call
    fails,                           \* failed invocations of f in the current call
    prior,                           \* whether an earlier call of the caller had a failed invocation
    lastOut,                         \* outcome of the most recent invocation of f
    result,                          \* what the current call handed to its caller
    seen, last, late,                \* HTTP answers of the current call
    rpc, server_tb, tb, tasks, backlog_lane_id, idx, issued  \* reset_card_tasks

retryVars == <<tries, delay, backoff, logger>>
callVars == <<pc, op, mtries, mdelay, calls, trace, fails, prior, lastOut, result>>
httpVars == <<seen, last, late>>
resetVars == <<rpc, server_tb, tb, tasks, backlog_lane_id, idx, issued>>
vars == <<retryVars, callVars, httpVars, resetVars>>

(* ------------------------------ outcomes ------------------------------ *)
NoOutcome == [kind |-> "none", what |-> "-", status |-> 0]
Ret(what) == [kind |-> "return", what |-> what, status |-> 0]
Raise(what, status) == [kind |-> "raise", what |-> what, status |-> status]

\* the behaviours of an arbitrary wrapped operation f: a value or an exception
FOutcomes == {Ret("V1"), Raise("E1", 0), Raise("E2", 0)}

(* ------------------------------ HTTP ---------------------------------- *)
\* status 0 stands for a transport failure: the session call itself raises
ConnFailure == [status |-> 0, body |-> "-"]
NoResponse == [status |-> 0, body |-> "none"]
\* body: "doc" is JSON holding the field the function reads, "nokey" is JSON
\* without it, "text" is not JSON
Statuses == {200, 201, 400, 500}
Bodies == {"doc", "nokey", "text"}
AllResponses == [status : Statuses, body : Bodies] \cup {ConnFailure}

\* requests.Response.raise_for_status
IsHttpError(r) == r.status >= 400 /\ r.status < 600
\* requests.Response.json
JsonFails(r) == r.body = "text"

RaiseForStatus(r, otherwise) ==
    IF IsHttpError(r) THEN Raise("HTTPError", r.status) ELSE otherwise

\* r.json()[key]
JsonField(r, what) ==
    IF JsonFails(r) THEN Raise("ValueError", 0)
    ELSE IF r.body = "nokey" THEN Raise("KeyError", 0)
    ELSE Ret(what)

\* session.post(...).raise_for_status(): move_card, block_card, move_task,
\* update_header, update_custom_field, update_planned_finish, remove_planned_finish
StatusChecked(r) == RaiseForStatus(r, Ret("None"))

add_card(r) ==
    IF r.status = 201 THEN JsonField(r, "id")
    ELSE IF JsonFails(r) THEN Raise("ValueError", 0)
    ELSE RaiseForStatus(r, Ret("None"))

\* get_card, get_board, lane_history
JsonBody(r) == IF JsonFails(r) THEN Raise("ValueError", 0) ELSE Ret("body")

get_cards(r) == JsonField(r, "cards")

delete_card(r) == Ret("None")

get_task_board(r) == JsonField(r, "taskboard")

change_card_type(r) ==
    IF r.status = 200 THEN Ret("None")
    ELSE IF JsonFails(r) THEN Raise("ValueError", 0)
    ELSE Ret("None")

ClientOps == {"add_card", "get_card", "get_cards", "get_board", "delete_card",
              "update_header", "move_card", "change_card_type"}

\* what one invocation of the wrapped function o does with the answer r
Outcome(o, r) ==
    IF r = ConnFailure THEN Raise("ConnectionError", 0)
    ELSE CASE o = "add_card" -> add_card(r)
           [] o \in {"get_card", "get_board"} -> JsonBody(r)
           [] o = "get_cards" -> get_cards(r)
           [] o = "delete_card" -> delete_card(r)
           [] o \in {"update_header", "move_card", "move_task"} -> StatusChecked(r)
           [] o = "change_card_type" -> change_card_type(r)
           [] o = "get_task_board" -> get_task_board(r)

\* the answers the remote service can give to the request of o
Responses(o) ==
    CASE o = "move_task" ->
           {[status |-> 200, body |-> "doc"], [status |-> 500, body |-> "text"], ConnFailure}
      [] o = "get_task_board" ->
           {[status |-> 200, body |-> "doc"], [status |-> 200, body |-> "nokey"],
            [status |-> 500, body |-> "text"], ConnFailure}
      [] OTHER -> AllResponses

(* ------------------------------ retry --------------------------------- *)
Ev(e, n) == [ev |-> e, n |-> n]

\* line 25: mtries, mdelay = tries, delay
\* (variant: the counter kept across calls instead of being a local)
StartTriesStale(c) == IF calls[c] = 0 THEN tries ELSE mtries[c]
StartTries(c) == tries
StartDelay(c) == delay

\* line 26: while mtries > 1
\* (variant: while mtries > 0)
LoopCondOffByOne(m) == m > 0
LoopCond(m) == m > 1

\* lines 30-34: the message goes to logger.warning, or to print without a logger
\* (variant: no else branch, nothing is printed without a logger)
ReportEventsLoggerOnly(hasLogger, d) == IF hasLogger THEN <<Ev("warning", d)>> ELSE <<>>
ReportEvents(hasLogger, d) == IF hasLogger THEN <<Ev("warning", d)>> ELSE <<Ev("print", d)>>

\* line 36
NextTries(m) == m - 1
\* line 37
\* (variant: mdelay += backoff)
NextDelayAdditive(d) == d + backoff
NextDelay(d) == d * backoff

\* f_retry is entered
Enter(c, o) ==
    /\ pc' = [pc EXCEPT ![c] = "loop"]
    /\ op' = [op EXCEPT ![c] = o]
    /\ mtries' = [mtries EXCEPT ![c] = StartTries(c)]
    /\ mdelay' = [mdelay EXCEPT ![c] = StartDelay(c)]
    /\ calls' = [calls EXCEPT ![c] = @ + 1]
    /\ trace' = [trace EXCEPT ![c] = <<>>]
    /\ fails' = [fails EXCEPT ![c] = 0]
    /\ prior' = [prior EXCEPT ![c] = @ \/ fails[c] > 0]
    /\ lastOut' = [lastOut EXCEPT ![c] = NoOutcome]
    /\ result' = [result EXCEPT ![c] = NoOutcome]
    /\ seen' = [seen EXCEPT ![c] = {}]
    /\ last' = [last EXCEPT ![c] = NoResponse]
    /\ late' = [late EXCEPT ![c] = 0]

\* one invocation of f, at line 28 (inside the try) or at line 38 (outside it)
Invoked(c, o) ==
    /\ trace' = [trace EXCEPT ![c] = Append(@, Ev("invoke", 0))]
    /\ lastOut' = [lastOut EXCEPT ![c] = o]
    /\ IF o.kind = "return"
       THEN /\ result' = [result EXCEPT ![c] = o]
            /\ pc' = [pc EXCEPT ![c] = "done"]
            /\ fails' = fails
       ELSE /\ fails' = [fails EXCEPT ![c] = @ + 1]
            /\ IF LoopCond(mtries[c])
               THEN /\ pc' = [pc EXCEPT ![c] = "except"]
                    /\ result' = result
               ELSE /\ pc' = [pc EXCEPT ![c] = "done"]
                    /\ result' = [result EXCEPT ![c] = o]
    /\ UNCHANGED <<op, mtries, mdelay, calls, prior>>

\* a caller calls the decorated arbitrary operation f
CallF(c) ==
    /\ pc[c] \in {"idle", "done"}
    /\ calls[c] < MaxCalls
    /\ Enter(c, "f")
    /\ UNCHANGED <<retryVars, resetVars>>

InvokeF(c) ==
    /\ pc[c] = "loop"
    /\ op[c] = "f"
    /\ \E o \in FOutcomes : Invoked(c, o)
    /\ UNCHANGED <<retryVars, httpVars, resetVars>>

\* lines 29-37: the except block
Except(c) ==
    /\ pc[c] = "except"
    /\ trace' = [trace EXCEPT ![c] =
                   @ \o ReportEvents(logger, mdelay[c]) \o <<Ev("sleep", mdelay[c])>>]
    /\ mtries' = [mtries EXCEPT ![c] = NextTries(@)]
    /\ mdelay' = [mdelay EXCEPT ![c] = NextDelay(@)]
    /\ pc' = [pc EXCEPT ![c] = "loop"]
    /\ UNCHANGED <<retryVars, op, calls, fails, prior, lastOut, result, httpVars, resetVars>>

(* --------------------------- client calls ----------------------------- *)
CallClient(c) ==
    /\ pc[c] \in {"idle", "done"}
    /\ calls[c] < MaxCalls
    /\ \E o \in ClientOps : Enter(c, o)
    /\ UNCHANGED <<retryVars, resetVars>>

\* one invocation of a client function: one HTTP request and its answer
InvokeHttp(c) ==
    /\ pc[c] = "loop"
    /\ op[c] # "f"
    /\ \E r \in Responses(op[c]) :
         /\ Invoked(c, Outcome(op[c], r))
         /\ seen' = [seen EXCEPT ![c] = @ \cup {r.status}]
         /\ last' = [last EXCEPT ![c] = r]
         /\ late' = [late EXCEPT ![c] = IF 201 \in seen[c] THEN @ + 1 ELSE @]
    /\ UNCHANGED <<retryVars, resetVars>>

(* ------------------------- reset_card_tasks --------------------------- *)
\* the task sub-board the service holds: ReplyData[0] of the taskboard answer
FalsyBoard == [falsy |-> TRUE, Lanes |-> <<>>]
MkLane(i, n) == [Id |-> i, Cards |-> [j \in 1..n |-> [Id |-> 10 * i + j - 1]]]
MkBoard(ns) == [falsy |-> FALSE, Lanes |-> [i \in 1..Len(ns) |-> MkLane(i, ns[i])]]
CardCounts == UNION {[1..k -> 0..MaxCards] : k \in 0..MaxLanes}
Boards == {FalsyBoard} \cup {MkBoard(ns) : ns \in CardCounts}

\* lines 139-140: for l in tb['Lanes']: tasks.extend(l['Cards'])
\* (variant: the loop starts at the second lane)
RECURSIVE TasksOfSkippingFirst(_)
TasksOfSkippingFirst(lanes) ==
    IF Len(lanes) <= 1 THEN <<>>
    ELSE lanes[2].Cards \o TasksOfSkippingFirst(Tail(lanes))
RECURSIVE TasksOf(_)
TasksOf(lanes) ==
    IF lanes = <<>> THEN <<>> ELSE lanes[1].Cards \o TasksOf(Tail(lanes))

\* line 138: backlog_lane_id = tb['Lanes'][0]['Id']
\* (variant: tb['Lanes'][-1]['Id'])
BacklogLaneIdLast(board) == board.Lanes[Len(board.Lanes)].Id
BacklogLaneId(board) == board.Lanes[1].Id

CallRec(fn, task, lane) == [fn |-> fn, task |-> task, lane |-> lane]

\* line 134: tb = get_task_board(board_id, card_id) is called
ResetStart ==
    /\ rpc = "start"
    /\ rpc' = "reading"
    /\ issued' = Append(issued, CallRec("get_task_board", 0, 0))
    /\ Enter(ClientCaller, "get_task_board")
    /\ UNCHANGED <<retryVars, server_tb, tb, tasks, backlog_lane_id, idx>>

\* lines 134-140: get_task_board is back; the tasks are collected
ResetGotBoard ==
    /\ rpc = "reading"
    /\ pc[ClientCaller] = "done"
    /\ IF result[ClientCaller].kind = "raise"
       THEN /\ rpc' = "raised"
            /\ UNCHANGED <<tb, tasks, backlog_lane_id, idx>>
       ELSE /\ tb' = server_tb
            /\ IF server_tb.falsy
               THEN /\ rpc' = "done"
                    /\ UNCHANGED <<tasks, backlog_lane_id, idx>>
               ELSE IF server_tb.Lanes = <<>>
               THEN /\ rpc' = "raised"      \* IndexError at tb['Lanes'][0]
                    /\ UNCHANGED <<tasks, backlog_lane_id, idx>>
               ELSE /\ rpc' = "moving"
                    /\ backlog_lane_id' = BacklogLaneId(server_tb)
                    /\ tasks' = TasksOf(server_tb.Lanes)
                    /\ idx' = 1
    /\ UNCHANGED <<retryVars, callVars, httpVars, server_tb, issued>>

\* lines 141-142: the next move_task is called, or the loop ends
ResetMove ==
    /\ rpc = "moving"
    /\ IF idx > Len(tasks)
       THEN /\ rpc' = "done"
            /\ UNCHANGED <<issued, callVars, httpVars>>
       ELSE /\ rpc' = "inmove"
            /\ issued' = Append(issued, CallRec("move_task", tasks[idx].Id, backlog_lane_id))
            /\ Enter(ClientCaller, "move_task")
    /\ UNCHANGED <<retryVars, server_tb, tb, tasks, backlog_lane_id, idx>>

\* line 142: move_task is back
ResetMoved ==
    /\ rpc = "inmove"
    /\ pc[ClientCaller] = "done"
    /\ IF result[ClientCaller].kind = "raise"
       THEN rpc' = "raised" /\ idx' = idx
       ELSE rpc' = "moving" /\ idx' = idx + 1
    /\ UNCHANGED <<retryVars, callVars, httpVars, server_tb, tb, tasks, backlog_lane_id, issued>>

(* --------------------------- specifications --------------------------- *)
InitCalls ==
    /\ pc = [c \in Callers |-> "idle"]
    /\ op = [c \in Callers |-> "-"]
    /\ mtries = [c \in Callers |-> 0]
    /\ mdelay = [c \in Callers |-> 0]
    /\ calls = [c \in Callers |-> 0]
    /\ trace = [c \in Callers |-> <<>>]
    /\ fails = [c \in Callers |-> 0]
    /\ prior = [c \in Callers |-> FALSE]
    /\ lastOut = [c \in Callers |-> NoOutcome]
    /\ result = [c \in Callers |-> NoOutcome]
    /\ seen = [c \in Callers |-> {}]
    /\ last = [c \in Callers |-> NoResponse]
    /\ late = [c \in Callers |-> 0]
    /\ tb = FalsyBoard
    /\ tasks = <<>>
    /\ backlog_lane_id = 0
    /\ idx = 0
    /\ issued = <<>>

\* @retry(): the defaults of line 20
DefaultRetry ==
    /\ tries = DefaultTries
    /\ delay = DefaultDelay
    /\ backoff = DefaultBackoff
    /\ logger = FALSE

\* retry(tries, delay, backoff, logger) around an arbitrary operation,
\* called by two threads
InitRetry ==
    /\ tries \in 0..MaxTries
    /\ delay \in Delays
    /\ backoff \in Backoffs
    /\ logger \in BOOLEAN
    /\ InitCalls
    /\ rpc = "off"
    /\ server_tb = FalsyBoard

NextRetry == \E c \in Callers : CallF(c) \/ InvokeF(c) \/ Except(c)

SpecRetry == InitRetry /\ [][NextRetry]_vars

\* the client functions, each decorated with @retry()
InitClient ==
    /\ DefaultRetry
    /\ InitCalls
    /\ rpc = "off"
    /\ server_tb = FalsyBoard

NextClient ==
    \/ CallClient(ClientCaller)
    \/ InvokeHttp(ClientCaller)
    \/ Except(ClientCaller)

SpecClient == InitClient /\ [][NextClient]_vars

\* one call of reset_card_tasks against a service holding server_tb
InitReset ==
    /\ DefaultRetry
    /\ InitCalls
    /\ rpc = "start"
    /\ server_tb \in Boards

NextReset ==
    \/ ResetStart
    \/ ResetGotBoard
    \/ ResetMove
    \/ ResetMoved
    \/ InvokeHttp(ClientCaller)
    \/ Except(ClientCaller)

SpecReset == InitReset /\ [][NextReset]_vars

(* ------------------------------ properties ---------------------------- *)
EventsOf(c, kinds) == {i \in DOMAIN trace[c] : trace[c][i].ev \in kinds}
Invocations(c) == Cardinality(EventsOf(c, {"invoke"}))
Reports(c) == Cardinality(EventsOf(c, {"warning", "print"}))
Sleeps(c) == Cardinality(EventsOf(c, {"sleep"}))
IsSleep(e) == e.ev = "sleep"
Waits(c) == [i \in 1..Sleeps(c) |-> SelectSeq(trace[c], IsSleep)[i].n]
RECURSIVE Pow(_, _)
Pow(b, n) == IF n = 0 THEN 1 ELSE b * Pow(b, n - 1)

\* C1: with tries = N >= 1, a call in which every invocation of the wrapped
\* operation failed has invoked it exactly N times, and the caller gets the
\* error of the last invocation, unchanged.
C1_AlwaysFailing ==
    \A c \in Callers :
        (pc[c] = "done" /\ tries >= 1 /\ fails[c] = Invocations(c)) =>
            /\ Invocations(c) = tries
            /\ result[c].kind = "raise"
            /\ result[c] = lastOut[c]
            /\ result[c].what \in {"E1", "E2"}

C1_Witness ==
    \E c \in Callers :
        /\ pc[c] = "done" /\ tries = 3 /\ fails[c] = 3 /\ Invocations(c) = 3
        /\ result[c] = Raise("E2", 0)

\* C2: with tries = N >= 2, a call that ends in a success at its k-th
\* invocation has 1 <= k <= N, had k-1 failures before it, returns the value
\* of the k-th invocation, has logged exactly k-1 reports, and nothing
\* happened after the successful invocation.
C2_SuccessAtK ==
    \A c \in Callers :
        (pc[c] = "done" /\ tries >= 2 /\ result[c].kind = "return") =>
            LET k == Invocations(c) IN
            /\ k \in 1..tries
            /\ fails[c] = k - 1
            /\ result[c] = lastOut[c]
            /\ Reports(c) = k - 1
            /\ Sleeps(c) = k - 1
            /\ trace[c][Len(trace[c])].ev = "invoke"

C2_Witness ==
    \E c \in Callers :
        /\ pc[c] = "done" /\ tries >= 2 /\ result[c] = Ret("V1")
        /\ Invocations(c) = 2 /\ fails[c] = 1 /\ Reports(c) = 1

\* C3: the i-th wait of a call, the one before attempt i+1, lasts
\* delay * backoff^(i-1), and exactly one wait lies between two consecutive
\* invocations.
C3_DelaySequence ==
    \A c \in Callers :
        /\ \A i \in 1..Sleeps(c) : Waits(c)[i] = delay * Pow(backoff, i - 1)
        /\ \A i, j \in EventsOf(c, {"invoke"}) :
              (i < j /\ EventsOf(c, {"invoke"}) \cap ((i + 1)..(j - 1)) = {}) =>
                  Cardinality(EventsOf(c, {"sleep"}) \cap ((i + 1)..(j - 1))) = 1

C3_Witness ==
    \E c \in Callers :
        /\ delay = 3 /\ backoff = 2 /\ Invocations(c) = 3
        /\ Waits(c) = <<3, 6>>

\* C4: with tries = 1 no wait is ever performed, and a failing operation is
\* invoked once and its error reaches the caller right after that invocation.
C4_SingleAttempt ==
    \A c \in Callers :
        tries = 1 =>
            /\ Sleeps(c) = 0
            /\ (pc[c] = "done" /\ lastOut[c].kind = "raise") =>
                   /\ trace[c] = <<Ev("invoke", 0)>>
                   /\ result[c] = lastOut[c]
            /\ pc[c] # "except"

C4_Witness ==
    \E c \in Callers :
        tries = 1 /\ pc[c] = "done" /\ result[c] = Raise("E1", 0) /\ Invocations(c) = 1

\* C5 as stated: after a call in which all N attempts failed, N failure
\* reports have been emitted (one per failed attempt, the last included).
C5_EveryFailureReported ==
    \A c \in Callers :
        (pc[c] = "done" /\ tries >= 1 /\ result[c].kind = "raise") =>
            Reports(c) = fails[c]

\* C5 amended: every failed attempt that is followed by another attempt is
\* reported once, right after the invocation and right before the wait, with
\* the delay of that wait; the failure that ends the call is not reported by
\* the wrapper, so N failed attempts give N-1 reports.
C5_FailuresBeforeRetryReported ==
    \A c \in Callers :
        /\ pc[c] \in {"loop", "done"} =>
               Reports(c) = fails[c] - (IF result[c].kind = "raise" THEN 1 ELSE 0)
        /\ pc[c] = "except" => Reports(c) = fails[c] - 1
        /\ \A i \in EventsOf(c, {"sleep"}) :
               /\ i > 2
               /\ trace[c][i - 1].ev = (IF logger THEN "warning" ELSE "print")
               /\ trace[c][i - 1].n = trace[c][i].n
               /\ trace[c][i - 2].ev = "invoke"
        /\ \A i \in EventsOf(c, {"warning", "print"}) :
               i < Len(trace[c]) /\ trace[c][i + 1].ev = "sleep"

C5_Witness ==
    \E c \in Callers :
        /\ pc[c] = "done" /\ tries = 3 /\ result[c].kind = "raise"
        /\ fails[c] = 3 /\ Reports(c) = 2

\* C9: in every interleaving of calls, a call's remaining attempts and current
\* delay depend only on the configuration and on the waits of that very call
\* (so each call starts with tries and delay), and the waits of a call never
\* decrease, and are all equal when backoff = 1.
C9_PerInvocationState ==
    \A c \in Callers :
        pc[c] # "idle" =>
            /\ mtries[c] = tries - Sleeps(c)
            /\ mdelay[c] = delay * Pow(backoff, Sleeps(c))
            /\ \A i, j \in 1..Sleeps(c) : i <= j => Waits(c)[i] <= Waits(c)[j]
            /\ backoff = 1 => \A i \in 1..Sleeps(c) : Waits(c)[i] = delay

C9_Witness ==
    /\ calls["c1"] = 2 /\ pc["c1"] = "loop" /\ trace["c1"] = <<>>
    /\ prior["c1"]
    /\ tries = 3 /\ mtries["c1"] = 3 /\ delay = 1 /\ mdelay["c1"] = 1 /\ backoff = 2
    /\ pc["c2"] = "except" /\ fails["c2"] = 2

\* C6 as stated: a client function other than delete_card whose every attempt
\* was answered with a 4xx/5xx status ends by raising an error that carries
\* the status.
C6_ErrorStatusSurfaces ==
    \A c \in Callers :
        (/\ pc[c] = "done"
         /\ op[c] \in ClientOps \ {"delete_card"}
         /\ seen[c] # {}
         /\ seen[c] \subseteq {400, 500}) =>
            /\ result[c].kind = "raise"
            /\ result[c].what = "HTTPError"
            /\ result[c].status \in seen[c]

\* C7 as stated: add_card returns the id when the POST is answered 201 with a
\* body holding an id; it raises an error carrying 400 when every attempt was
\* answered 400; and whatever the answers, it returns the id or raises.
C7_AddCardIdOrError ==
    \A c \in Callers :
        (pc[c] = "done" /\ op[c] = "add_card") =>
            /\ last[c] = [status |-> 201, body |-> "doc"] => result[c] = Ret("id")
            /\ seen[c] = {400} => result[c] = Raise("HTTPError", 400)
            /\ result[c] = Ret("id") \/ result[c].kind = "raise"

\* C10 as stated: within one add_card call no POST is issued after a POST of
\* that call was answered 201.
C10_NoPostAfterCreated ==
    \A c \in Callers : op[c] = "add_card" => late[c] = 0

\* C8: when reset_card_tasks ends normally on a sub-board with lanes, it has
\* called get_task_board once, first, and then move_task once per task of
\* every lane, in lane order, each time to the Id of the first lane.
RECURSIVE CardsBefore(_, _)
CardsBefore(lanes, l) ==
    IF l <= 1 THEN 0 ELSE Len(lanes[l - 1].Cards) + CardsBefore(lanes, l - 1)

C8_ResetMovesEveryTask ==
    /\ \A i \in DOMAIN issued : (issued[i].fn = "get_task_board") <=> (i = 1)
    /\ (rpc = "done" /\ ~server_tb.falsy /\ server_tb.Lanes # <<>>) =>
          LET lanes == server_tb.Lanes
              moves == Tail(issued)
          IN  /\ Len(moves) = CardsBefore(lanes, Len(lanes) + 1)
              /\ \A i \in DOMAIN moves :
                    moves[i].fn = "move_task" /\ moves[i].lane = lanes[1].Id
              /\ \A l \in DOMAIN lanes : \A j \in DOMAIN lanes[l].Cards :
                    moves[CardsBefore(lanes, l) + j].task = lanes[l].Cards[j].Id

C8_Witness ==
    /\ rpc = "done"
    /\ server_tb = MkBoard(<<1, 1>>)
    /\ issued = <<CallRec("get_task_board", 0, 0), CallRec("move_task", 10, 1),
                  CallRec("move_task", 20, 1)>>

====
